---- MODULE Spec2Model ----
(***************************************************************************)
(* Scene-synchronized media assembly core of slop:                        *)
(*   - stitch._compute_durations_from_alignment (whole-track alignment     *)
(*     sliced by scene text length),                                       *)
(*   - voice.synthesize_voice_with_alignment_chunked_async (per-scene      *)
(*     speech requests under a semaphore, reassembled by index),           *)
(*   - images._generate_images_async_openai (per-prompt image requests     *)
(*     under a semaphore with a retried single-image generator),          *)
(*   - stitch.stitch_video (argument check, ffprobe, manifest, ffmpeg      *)
(*     concat and mux),                                                    *)
(*   - pipeline.generate_video_pipeline / render_video_from_scenes (both   *)
(*     batches gathered on one event loop, then stitch_video),             *)
(*   - scriptgen.generate_scenes (scene count enforced by truncation and   *)
(*     padding, with a sentence-bucket fallback),                          *)
(*   - openai_utils.chat_completion_with_fallback (model candidates tried  *)
(*     in order).                                                          *)
(*                                                                         *)
(* Times are integers in units of 0.1 s, so the 0.1 s floor of the         *)
(* duration computation is 1.  Python list indices are 0-based; At reads   *)
(* a 0-based index out of a TLA+ sequence.                                 *)
(***************************************************************************)
EXTENDS Integers, Sequences, FiniteSets, TLC

VARIABLES
    scenes,           \* List[Scene]: the ordered scenes, each with its narration script
    alignment,        \* the whole-track alignment handed to _compute_durations_from_alignment
    timer,            \* outcome of the _compute_durations_from_alignment call
    model_id,         \* the speech model of the chunked synthesis call
    tts_concurrency,  \* its concurrency argument
    tts,              \* the chunked synthesis call: status, semaphore, tasks, outputs
    prompts,          \* List[str]: the prompts of the image batch
    img_concurrency,  \* the concurrency argument of _generate_images_async_openai
    img,              \* the image batch call: status, semaphore, tasks, outputs
    image_paths,      \* List[Path]: the image_paths argument of stitch_video
    stitch,           \* the stitch_video call: keywords, status, processes run, manifest
    pipeline,         \* the pipeline run around both batches and stitch_video
    files,            \* the working directory: path -> what was written there
    scriptgen,        \* the generate_scenes call: inputs, attempt, provider answer, outcome
    chat              \* the chat_completion_with_fallback call: candidates, calls, outcome

timerVars == <<alignment, timer>>

ttsVars == <<model_id, tts_concurrency, tts>>

imgVars == <<prompts, img_concurrency, img>>

composeVars == <<image_paths, stitch, pipeline>>

toolVars == <<scriptgen, chat>>

vars == <<scenes, alignment, timer, model_id, tts_concurrency, tts,
          prompts, img_concurrency, img, image_paths, stitch, pipeline, files,
          scriptgen, chat>>

----------------------------------------------------------------------------
(* Bounds of the explored inputs.                                          *)

MaxScenes == 2

MaxScriptLen == 2

MaxChars == 3

MaxTime == 3

MaxConcurrency == 2

MaxNumScenes == 3

MaxReturned == 4

MaxFallbackChars == 5

MaxCandidates == 3

(* max(0.1, ...) in units of 0.1 s.                                        *)
Eps == 1

----------------------------------------------------------------------------
(* Helpers.                                                                *)

Max(a, b) == IF a >= b THEN a ELSE b

Min(a, b) == IF a <= b THEN a ELSE b

At(seq, i) == seq[i + 1]

RECURSIVE SumSeq(_)
SumSeq(s) == IF s = <<>> THEN 0 ELSE Head(s) + SumSeq(Tail(s))

SeqsUpTo(S, n) == UNION {[1..k -> S] : k \in 0..n}

----------------------------------------------------------------------------
(* Scenes and alignments.                                                  *)

TimerAlphabet == {"a", " "}

Scene(text) == [script |-> text]

TimerScenes == {Scene(t) : t \in SeqsUpTo(TimerAlphabet, MaxScriptLen)}

TimeValues == 0..MaxTime

Zeros(n) == [k \in 1..n |-> 0]

AlignmentRecord(chars, st, en) ==
    [is_dict |-> TRUE,
     characters |-> chars,
     character_start_times_seconds |-> st,
     character_end_times_seconds |-> en]

(* A dict alignment with n characters.                                     *)
AlignmentOf(n, st, en) == AlignmentRecord([k \in 1..n |-> "c"], st, en)

(* alignment=None, the default of stitch_video.                            *)
NoAlignment == [AlignmentRecord(<<>>, <<>>, <<>>) EXCEPT !.is_dict = FALSE]

(* start_times[k] <= end_times[k] <= start_times[k+1]: the timings of a    *)
(* real audio track.                                                       *)
OrderedTimings(al) ==
    LET st == al.character_start_times_seconds
        en == al.character_end_times_seconds
    IN  /\ Len(st) = Len(en)
        /\ \A k \in 1..Len(st) : st[k] <= en[k]
        /\ \A k \in 1..(Len(st) - 1) : en[k] <= st[k + 1]

(* The alignments explored: None; arrays of unequal length; ordered        *)
(* timelines over 0..MaxTime; and arrays whose entries are any of          *)
(* 0, Eps, MaxTime in any order (the validation accepts them).             *)
RECURSIVE NonDecreasing(_, _)
NonDecreasing(k, lo) ==
    IF k = 0 THEN {<<>>}
    ELSE UNION {{<<v>> \o s : s \in NonDecreasing(k - 1, v)} : v \in lo..MaxTime}

OrderedAlignments ==
    UNION {{AlignmentOf(n, [k \in 1..n |-> t[2 * k - 1]], [k \in 1..n |-> t[2 * k]])
               : t \in NonDecreasing(2 * n, 0)}
           : n \in 0..MaxChars}

FreeAlignments ==
    UNION {{AlignmentOf(n, st, en) : st \in [1..n -> {0, Eps, MaxTime}],
                                     en \in [1..n -> {0, Eps, MaxTime}]}
           : n \in 0..MaxChars}

RaggedAlignments ==
    UNION {{AlignmentOf(n + 1, Zeros(n), Zeros(n)),
            AlignmentOf(n, Zeros(n + 1), Zeros(n)),
            AlignmentOf(n, Zeros(n), Zeros(n + 1))}
           : n \in 0..(MaxChars - 1)}

Alignments ==
    {NoAlignment} \cup RaggedAlignments \cup OrderedAlignments \cup FreeAlignments

(* str.strip(): leading and trailing whitespace removed.                   *)
RECURSIVE LStrip(_)
LStrip(s) == IF s # <<>> /\ Head(s) = " " THEN LStrip(Tail(s)) ELSE s

RECURSIVE RStrip(_)
RStrip(s) ==
    IF s # <<>> /\ s[Len(s)] = " " THEN RStrip(SubSeq(s, 1, Len(s) - 1)) ELSE s

Strip(s) == RStrip(LStrip(s))

(* " ".join(s.script for s in scenes)                                      *)
RECURSIVE JoinScripts(_)
JoinScripts(sc) ==
    IF sc = <<>> THEN <<>>
    ELSE IF Len(sc) = 1 THEN sc[1].script
    ELSE sc[1].script \o <<" ">> \o JoinScripts(Tail(sc))

combined_text(sc) == Strip(JoinScripts(sc))

(* The scene lists explored: up to MaxScenes scenes whose joined text has  *)
(* at most MaxChars characters (the empty list included).                  *)
TimerSceneLists ==
    {sc \in SeqsUpTo(TimerScenes, MaxScenes) : Len(JoinScripts(sc)) <= MaxChars}

----------------------------------------------------------------------------
(* stitch._compute_durations_from_alignment                                *)

(* The loop of lines 55-64 from scene idx (0-based) at running offset.     *)
RECURSIVE RangesFrom(_, _, _)
RangesFrom(sc, idx, offset) ==
    IF idx >= Len(sc) THEN <<>>
    ELSE LET start_idx == offset
             end_idx_exclusive == start_idx + Len(At(sc, idx).script)
             next == IF idx < Len(sc) - 1 THEN end_idx_exclusive + 1
                     ELSE end_idx_exclusive
         IN  <<[start_idx |-> start_idx, end_idx_exclusive |-> end_idx_exclusive]>>
             \o RangesFrom(sc, idx + 1, next)

(* A variant without the separator skip (ranges back to back).             *)
RangesNoSeparator(sc) ==
    [i \in 1..Len(sc) |->
        LET before == SumSeq([j \in 1..(i - 1) |-> Len(sc[j].script)])
        IN  [start_idx |-> before, end_idx_exclusive |-> before + Len(sc[i].script)]]

ComputeRanges(sc) == RangesFrom(sc, 0, 0)

(* The guard of line 68.                                                   *)
RangeOutOfBounds(r, n) ==
    \/ r.start_idx < 0
    \/ r.end_idx_exclusive <= r.start_idx
    \/ r.end_idx_exclusive > n

(* A variant of the duration without the floor.                            *)
SceneDurationNoFloor(al, r) ==
    At(al.character_end_times_seconds, r.end_idx_exclusive - 1)
        - At(al.character_start_times_seconds, r.start_idx)

(* A variant of the duration with a floor of 1.0 s.                        *)
SceneDurationFloorOneSecond(al, r) ==
    Max(10 * Eps,
        At(al.character_end_times_seconds, r.end_idx_exclusive - 1)
            - At(al.character_start_times_seconds, r.start_idx))

(* Lines 70-72.                                                            *)
SceneDuration(al, r) ==
    LET first_start == At(al.character_start_times_seconds, r.start_idx)
        last_end == At(al.character_end_times_seconds, r.end_idx_exclusive - 1)
    IN  Max(Eps, last_end - first_start)

Raised(msg, rs, w) ==
    [status |-> "raised", error |-> msg, durations |-> <<>>, ranges |-> rs, warned |-> w]

Returned(ds, rs, w) ==
    [status |-> "returned", error |-> "", durations |-> ds, ranges |-> rs, warned |-> w]

(* A variant that clamps an out-of-range index to the last entry instead   *)
(* of raising.                                                             *)
ComputeDurationsClamped(al, sc) ==
    LET n == Len(al.characters)
        rs == ComputeRanges(sc)
        valid == /\ al.is_dict
                 /\ sc # <<>>
                 /\ n = Len(al.character_start_times_seconds)
                 /\ n = Len(al.character_end_times_seconds)
                 /\ n > 0
        clamp(r) == [start_idx |-> Min(r.start_idx, n - 1),
                     end_idx_exclusive |-> Min(r.end_idx_exclusive, n)]
    IN  IF ~valid THEN Raised("invalid alignment or scenes", <<>>, FALSE)
        ELSE IF \E i \in 1..Len(rs) : rs[i].end_idx_exclusive <= rs[i].start_idx
        THEN Raised("scene index range is out of alignment bounds", rs, FALSE)
        ELSE Returned([i \in 1..Len(rs) |-> SceneDuration(al, clamp(rs[i]))], rs, FALSE)

(* A variant that gives a scene without characters the floor instead of   *)
(* raising.                                                                *)
ComputeDurationsFloorsEmpty(al, sc) ==
    LET n == Len(al.characters)
        rs == ComputeRanges(sc)
        valid == /\ al.is_dict
                 /\ sc # <<>>
                 /\ n = Len(al.character_start_times_seconds)
                 /\ n = Len(al.character_end_times_seconds)
                 /\ n > 0
        dur(r) == IF r.end_idx_exclusive <= r.start_idx THEN Eps
                  ELSE SceneDuration(al, r)
    IN  IF ~valid THEN Raised("invalid alignment or scenes", <<>>, FALSE)
        ELSE IF \E i \in 1..Len(rs) : rs[i].start_idx < 0 \/ rs[i].end_idx_exclusive > n
        THEN Raised("scene index range is out of alignment bounds", rs, FALSE)
        ELSE Returned([i \in 1..Len(rs) |-> dur(rs[i])], rs, FALSE)

(* The whole function: what it raises or returns, with the local ranges    *)
(* and whether the length warning of lines 49-53 was logged.               *)
ComputeDurationsFromAlignment(al, sc) ==
    IF ~al.is_dict
    THEN Raised("alignment must be provided and be a dict with character-level timings",
                <<>>, FALSE)
    ELSE IF sc = <<>>
    THEN Raised("scenes must be provided", <<>>, FALSE)
    ELSE IF ~(/\ Len(al.characters) = Len(al.character_start_times_seconds)
              /\ Len(al.character_start_times_seconds) = Len(al.character_end_times_seconds)
              /\ Len(al.characters) > 0)
    THEN Raised("alignment character arrays must be same non-zero length", <<>>, FALSE)
    ELSE LET n == Len(al.characters)
             w == Len(combined_text(sc)) # n
             rs == ComputeRanges(sc)
         IN  IF \E i \in 1..Len(rs) : RangeOutOfBounds(rs[i], n)
             THEN Raised("scene index range is out of alignment bounds", rs, w)
             ELSE Returned([i \in 1..Len(rs) |-> SceneDuration(al, rs[i])], rs, w)

NotCalled ==
    [status |-> "not_called", error |-> "", durations |-> <<>>, ranges |-> <<>>,
     warned |-> FALSE]

----------------------------------------------------------------------------
(* The working directory shared by the speech and the image batch.         *)

(* A variant of the chunk name without the scene index.                   *)
ChunkPathUnnumbered(index) == <<"audio_chunks/chunk_.mp3", 0>>

(* chunks_dir / f"chunk_{index:03d}.mp3"                                   *)
ChunkPath(index) == <<"audio_chunks/chunk_.mp3", index>>

(* A variant that puts the frames where the chunks are.                    *)
FramePathAmongChunks(index) == <<"audio_chunks/chunk_.mp3", index>>

(* output_dir / f"frame_{index:03d}.png"                                   *)
FramePath(index) == <<"frame_.png", index>>

ListPath == <<"audio_chunks.txt", 0>>

FinalAudioPath == <<"voice.mp3", 0>>

NoFiles == [p \in {} |-> 0]

(* open(path, "wb").write(data) by writer: the file holds the last data    *)
(* written and counts its writes.                                          *)
WriteFile(fs, path, writer, data) ==
    [p \in DOMAIN fs \cup {path} |->
        IF p = path
        THEN [writes |-> (IF path \in DOMAIN fs THEN fs[path].writes ELSE 0) + 1,
              writer |-> writer,
              data |-> data]
        ELSE fs[p]]

----------------------------------------------------------------------------
(* voice.synthesize_voice_with_alignment_chunked_async                     *)

SpeechAlphabet == {"a", "b"}

(* Scripts told apart by their text; the empty script is a str too.        *)
SpeechScenes == {Scene(s) : s \in SeqsUpTo(SpeechAlphabet, 1)}

SpeechSceneLists == SeqsUpTo(SpeechScenes, MaxScenes)

SpeechModels == {"eleven_turbo_v2", "eleven_v3"}

(* A variant without the guard: no model is taken as unsupported.          *)
NoUnsupportedModels == {}

(* Line 300.                                                               *)
unsupported_models == {"eleven_v3"}

(* Python None where a text is expected.                                   *)
None == <<"None">>

(* Truthiness of an Optional[str]: None and "" are falsy.                  *)
Truthy(text) == text # None /\ text # <<>>

(* A variant without the "index > 0" guard: scenes[index - 1] of the first  *)
(* scene is Python's scenes[-1], the last scene.                           *)
SpeechRequestNoGuard(sc, index) ==
    LET scene == At(sc, index)
        previous_text == IF index > 0 THEN At(sc, index - 1).script
                         ELSE sc[Len(sc)].script
        next_text == IF index + 1 < Len(sc) THEN At(sc, index + 1).script ELSE None
    IN  [keys |-> {"voice_id", "text", "model_id", "output_format"}
                  \cup (IF Truthy(previous_text) THEN {"previous_text"} ELSE {})
                  \cup (IF Truthy(next_text) THEN {"next_text"} ELSE {}),
         text |-> scene.script,
         previous_text |-> IF Truthy(previous_text) THEN previous_text ELSE None,
         next_text |-> IF Truthy(next_text) THEN next_text ELSE None]

(* tts_kwargs of run_one(index), lines 342-356: the text and the context   *)
(* keys that are present.                                                  *)
SpeechRequest(sc, index) ==
    LET scene == At(sc, index)
        previous_text == IF index > 0 THEN At(sc, index - 1).script ELSE None
        next_text == IF index + 1 < Len(sc) THEN At(sc, index + 1).script ELSE None
    IN  [keys |-> {"voice_id", "text", "model_id", "output_format"}
                  \cup (IF Truthy(previous_text) THEN {"previous_text"} ELSE {})
                  \cup (IF Truthy(next_text) THEN {"next_text"} ELSE {}),
         text |-> scene.script,
         previous_text |-> IF Truthy(previous_text) THEN previous_text ELSE None,
         next_text |-> IF Truthy(next_text) THEN next_text ELSE None]

NoRequest == [keys |-> {}, text |-> None, previous_text |-> None, next_text |-> None]

(* What convert_with_timestamps can answer: audio (or none) and the        *)
(* alignment's character_end_times_seconds (empty when the response has    *)
(* no usable alignment).                                                   *)
SpeechResponses ==
    {[audio |-> TRUE, end_times |-> <<0, d>>] : d \in {Eps, MaxTime}}
    \cup {[audio |-> TRUE, end_times |-> <<>>], [audio |-> FALSE, end_times |-> <<>>]}

NoResponse == [audio |-> FALSE, end_times |-> <<>>]

(* Lines 383-400: the last end time, 0.0 without one.                      *)
ChunkDuration(response) ==
    IF response.end_times # <<>> /\ Len(response.end_times) > 0
    THEN response.end_times[Len(response.end_times)]
    ELSE 0

(* A variant that reports index 0 for every chunk.                         *)
TtsResultIndexZero(index, response) ==
    [index |-> 0, path |-> ChunkPath(index), duration |-> ChunkDuration(response)]

(* Line 408: return index, out_path, duration.                             *)
TtsResult(index, response) ==
    [index |-> index, path |-> ChunkPath(index), duration |-> ChunkDuration(response)]

NoResult == [index |-> -1, path |-> <<"", -1>>, duration |-> 0]

TtsTask(pc, request, response, result) ==
    [pc |-> pc, request |-> request, response |-> response, result |-> result]

NoTtsOutput == [audio_path |-> <<"", -1>>, durations_by_scene |-> <<>>]

TtsIdle ==
    [status |-> "idle", error |-> "", permits |-> 0, tasks |-> <<>>,
     completed |-> <<>>, output |-> NoTtsOutput]

(* Lines 414-418: the lists are preset by index, then every result is      *)
(* stored at the index it carries.                                         *)
RECURSIVE AssignPaths(_, _)
AssignPaths(acc, results) ==
    IF results = <<>> THEN acc
    ELSE AssignPaths([acc EXCEPT ![Head(results).index + 1] = Head(results).path],
                     Tail(results))

RECURSIVE AssignDurations(_, _)
AssignDurations(acc, results) ==
    IF results = <<>> THEN acc
    ELSE AssignDurations([acc EXCEPT ![Head(results).index + 1] = Head(results).duration],
                         Tail(results))

(* asyncio.gather over the tasks: the results in the order of the tasks.   *)
GatherResults(tasks) == [k \in 1..Len(tasks) |-> tasks[k].result]

ordered_paths(results) ==
    AssignPaths([i \in 1..Len(results) |-> ChunkPath(i - 1)], results)

durations_by_scene(results) ==
    AssignDurations([i \in 1..Len(results) |-> 0], results)

TtsIndices == 0..(Len(tts.tasks) - 1)

TtsPc(i) == At(tts.tasks, i).pc

TtsInFlight == {i \in TtsIndices : TtsPc(i) = "inflight"}

(* The provider requests run_one(i) has issued: the one await of line 365. *)
TtsAttempts(i) == IF At(tts.tasks, i).request = NoRequest THEN 0 ELSE 1

(* A variant of the semaphore that lets every task in.                     *)
TtsSemaphoreOpen(i) == TRUE

(* asyncio.Semaphore.acquire: a free permit, and waiters are served in     *)
(* the order they queued, which is the order of the tasks.                 *)
TtsSemaphoreFree(i) ==
    /\ tts.permits > 0
    /\ \A j \in TtsIndices : j < i => TtsPc(j) # "waiting"

(* Line 443: subprocess.run is called inside the coroutine and returns    *)
(* when ffmpeg has exited; until then the thread of the event loop runs    *)
(* no other task or callback.                                              *)
LoopBlocked == tts.status = "concatenating"

(* Lines 281-338 and 410: the entry checks, the semaphore and the tasks.   *)
TtsCall ==
    /\ tts.status = "called"
    /\ IF scenes = <<>>
       THEN tts' = [tts EXCEPT !.status = "raised",
                               !.error = "scenes must not be empty"]
       ELSE IF model_id \in unsupported_models
       THEN tts' = [tts EXCEPT !.status = "raised",
                               !.error = "model does not support previous_text/next_text"]
       ELSE tts' = [tts EXCEPT
                !.status = "running",
                !.permits = Max(1, tts_concurrency),
                !.tasks = [k \in 1..Len(scenes) |->
                              TtsTask("waiting", NoRequest, NoResponse, NoResult)]]
    /\ UNCHANGED <<toolVars, scenes, timerVars, composeVars, model_id, tts_concurrency, imgVars, files>>

TtsLive == tts.status \in {"running", "raised"}

(* Lines 341-365: run_one(i) enters the semaphore, builds its request and  *)
(* awaits the provider.                                                    *)
TtsAcquire(i) ==
    /\ TtsLive
    /\ TtsPc(i) = "waiting"
    /\ TtsSemaphoreFree(i)
    /\ tts' = [tts EXCEPT
            !.permits = @ - 1,
            !.tasks[i + 1] = TtsTask("inflight", SpeechRequest(scenes, i),
                                     NoResponse, NoResult)]
    /\ UNCHANGED <<toolVars, scenes, timerVars, composeVars, model_id, tts_concurrency, imgVars, files>>

(* A variant in which a failing task keeps its permit.                     *)
TtsTaskRaisesWithPermit(i, msg) ==
    [tts EXCEPT
        !.tasks[i + 1].pc = "failed",
        !.completed = Append(@, i),
        !.status = IF @ = "running" THEN "raised" ELSE @,
        !.error = IF tts.status = "running" THEN msg ELSE @]

(* The first exception of a task is what gather raises to the caller.      *)
TtsTaskRaises(i, msg) ==
    [tts EXCEPT
        !.permits = @ + 1,
        !.tasks[i + 1].pc = "failed",
        !.completed = Append(@, i),
        !.status = IF @ = "running" THEN "raised" ELSE @,
        !.error = IF tts.status = "running" THEN msg ELSE @]

(* Lines 365-408: the provider answered.  Without audio run_one raises;    *)
(* with audio it writes chunk_<i>.mp3, takes the duration and returns.     *)
TtsResponse(i) ==
    /\ TtsLive
    /\ TtsPc(i) = "inflight"
    /\ \E response \in SpeechResponses :
          IF ~response.audio
          THEN /\ tts' = TtsTaskRaises(i, "convert_with_timestamps returned no audio")
               /\ UNCHANGED files
          ELSE /\ tts' = [tts EXCEPT
                      !.permits = @ + 1,
                      !.tasks[i + 1] = TtsTask("done", @.request, response,
                                               TtsResult(i, response)),
                      !.completed = Append(@, i)]
               /\ files' = WriteFile(files, ChunkPath(i), <<"tts", i>>,
                                     <<At(scenes, i).script>>)
    /\ UNCHANGED <<toolVars, scenes, timerVars, composeVars, model_id, tts_concurrency, imgVars>>

(* Line 365: the provider call itself raises (network, rate limit, 5xx).   *)
TtsRequestRaises(i) ==
    /\ TtsLive
    /\ TtsPc(i) = "inflight"
    /\ tts' = TtsTaskRaises(i, "provider error")
    /\ UNCHANGED <<toolVars, scenes, timerVars, composeVars, model_id, tts_concurrency, imgVars, files>>

(* A variant of the gather that skips failed tasks and concatenates what   *)
(* is left.                                                                *)
TtsConcatSkipsFailures ==
    /\ tts.status \in {"running", "raised"}
    /\ tts.tasks # <<>>
    /\ \A i \in TtsIndices : TtsPc(i) \in {"done", "failed"}
    /\ LET paths == [k \in 1..Len(tts.tasks) |-> ChunkPath(k - 1)]
           durations == [k \in 1..Len(tts.tasks) |-> tts.tasks[k].result.duration]
       IN  /\ tts' = [tts EXCEPT
                   !.status = "returned",
                   !.output = [audio_path |-> FinalAudioPath,
                               durations_by_scene |-> durations]]
           /\ files' = WriteFile(WriteFile(files, ListPath, <<"tts", -1>>, paths),
                                 FinalAudioPath, <<"tts", -1>>, paths)
    /\ UNCHANGED <<toolVars, scenes, timerVars, composeVars, model_id, tts_concurrency, imgVars>>

(* Lines 411-443: gather returned every result; the lists are ordered by   *)
(* index, audio_chunks.txt is written, and ffmpeg is started, or found     *)
(* missing.                                                                *)
TtsConcat ==
    /\ tts.status = "running"
    /\ \A i \in TtsIndices : TtsPc(i) = "done"
    /\ LET paths == ordered_paths(GatherResults(tts.tasks))
       IN  files' = WriteFile(files, ListPath, <<"tts", -1>>, paths)
    /\ \E ffmpeg_found \in BOOLEAN :
          tts' = IF ffmpeg_found
                 THEN [tts EXCEPT !.status = "concatenating"]
                 ELSE [tts EXCEPT !.status = "raised", !.error = "ffmpeg is required"]
    /\ UNCHANGED <<toolVars, scenes, timerVars, composeVars, model_id, tts_concurrency, imgVars>>

(* Lines 443-450: ffmpeg exited.  check=True raises on a nonzero exit;     *)
(* otherwise voice.mp3 is there and the call returns it with the           *)
(* durations by scene.                                                     *)
TtsConcatExits ==
    /\ tts.status = "concatenating"
    /\ LET results == GatherResults(tts.tasks)
           paths == ordered_paths(results)
           durations == durations_by_scene(results)
       IN  \E exit \in {0, 1} :
              IF exit # 0
              THEN /\ tts' = [tts EXCEPT !.status = "raised",
                                         !.error = "CalledProcessError"]
                   /\ UNCHANGED files
              ELSE /\ tts' = [tts EXCEPT
                          !.status = "returned",
                          !.output = [audio_path |-> FinalAudioPath,
                                      durations_by_scene |-> durations]]
                   /\ files' = WriteFile(files, FinalAudioPath, <<"tts", -1>>, paths)
    /\ UNCHANGED <<toolVars, scenes, timerVars, composeVars, model_id, tts_concurrency, imgVars>>

(* The event loop closes after the call raised (asyncio.run): the tasks    *)
(* still pending are cancelled, and a cancelled holder leaves the          *)
(* semaphore's "async with".                                               *)
TtsCancel ==
    /\ tts.status = "raised"
    /\ \E i \in TtsIndices : TtsPc(i) \in {"waiting", "inflight"}
    /\ tts' = [tts EXCEPT
            !.permits = @ + Cardinality(TtsInFlight),
            !.tasks = [k \in 1..Len(tts.tasks) |->
                          IF tts.tasks[k].pc \in {"waiting", "inflight"}
                          THEN [tts.tasks[k] EXCEPT !.pc = "cancelled"]
                          ELSE tts.tasks[k]]]
    /\ UNCHANGED <<toolVars, scenes, timerVars, composeVars, model_id, tts_concurrency, imgVars, files>>

TtsInit ==
    /\ scenes \in SpeechSceneLists
    /\ model_id \in SpeechModels
    /\ tts_concurrency \in 1..MaxConcurrency
    /\ tts = [TtsIdle EXCEPT !.status = "called"]

(* Each step of a task is taken by some task of the batch.                 *)
TtsTaskAcquires == \E i \in TtsIndices : TtsAcquire(i)

TtsTaskGetsResponse == \E i \in TtsIndices : TtsResponse(i)

TtsTaskRequestRaises == \E i \in TtsIndices : TtsRequestRaises(i)

TtsNext ==
    \/ TtsCall
    \/ TtsTaskAcquires
    \/ TtsTaskGetsResponse
    \/ TtsTaskRequestRaises
    \/ TtsConcat
    \/ TtsConcatExits
    \/ TtsCancel

----------------------------------------------------------------------------
(* images._generate_images_async_openai and the retried                    *)
(* _generate_single_image_openai_async                                     *)

(* stop_after_attempt(3)                                                   *)
MaxAttempts == 3

(* The prompt lists explored: up to MaxScenes prompts, all different or    *)
(* all the same (generate_images pads by repeating the last one).          *)
PromptLists ==
    UNION {{[k \in 1..n |-> <<"prompt", k>>], [k \in 1..n |-> <<"prompt", 1>>]}
           : n \in 0..MaxScenes}

(* The image modes a provider answer can have: without and with alpha.     *)
ImageModes == {"RGB", "RGBA"}

ImgTask(pc, attempt, requests, result) ==
    [pc |-> pc, attempt |-> attempt, requests |-> requests, result |-> result]

NoImgResult == [index |-> -1, path |-> <<"", -1>>]

(* The billing state of the OpenAI account: with "insufficient_quota"      *)
(* every images.generate request is denied with 429 insufficient_quota.    *)
QuotaStates == {"ok", "insufficient_quota"}

ImgIdle ==
    [status |-> "idle", error |-> "", permits |-> 0, tasks |-> <<>>,
     completed |-> <<>>, output |-> <<>>, quota |-> "ok"]

(* A variant that names every frame frame_000.png.                         *)
ImgResultFrameZero(index) == [index |-> index, path |-> FramePath(0)]

(* Lines 58 and 273: the frame is named by the index, and run_one returns  *)
(* the index with the path.                                                *)
ImgResult(index) == [index |-> index, path |-> FramePath(index)]

ImgIndices == 0..(Len(img.tasks) - 1)

ImgPc(i) == At(img.tasks, i).pc

(* Tasks with a provider request outstanding.                              *)
ImgInFlight == {i \in ImgIndices : ImgPc(i) \in {"dall-e-3", "gpt-image-1"}}

(* Tasks inside "async with semaphore".                                    *)
ImgHolders == {i \in ImgIndices : ImgPc(i) \in {"dall-e-3", "gpt-image-1", "backoff"}}

ImgSemaphoreFree(i) ==
    /\ img.permits > 0
    /\ \A j \in ImgIndices : j < i => ImgPc(j) # "waiting"

(* Lines 277-279: the paths preset by index, then stored by result index.  *)
image_ordered_paths(results) ==
    AssignPaths([i \in 1..Len(results) |-> FramePath(i - 1)], results)

(* Lines 263-276: the semaphore and one task per prompt.                   *)
ImgCall ==
    /\ img.status = "called"
    /\ ~LoopBlocked
    /\ img' = [img EXCEPT
            !.status = "running",
            !.permits = img_concurrency,
            !.tasks = [k \in 1..Len(prompts) |-> ImgTask("waiting", 0, 0, NoImgResult)]]
    /\ UNCHANGED <<toolVars, scenes, timerVars, composeVars, ttsVars, prompts, img_concurrency, files>>

(* The batch has live tasks and the event loop can run them.               *)
ImgLive == img.status \in {"running", "raised"} /\ ~LoopBlocked

(* Lines 267-269 and 39: run_one(i) enters the semaphore and the first     *)
(* attempt asks dall-e-3.                                                  *)
ImgAcquire(i) ==
    /\ ImgLive
    /\ ImgPc(i) = "waiting"
    /\ ImgSemaphoreFree(i)
    /\ img' = [img EXCEPT
            !.permits = @ - 1,
            !.tasks[i + 1] = ImgTask("dall-e-3", 1, 1, NoImgResult)]
    /\ UNCHANGED <<toolVars, scenes, timerVars, composeVars, ttsVars, prompts, img_concurrency, files>>

(* Lines 58-76: the bytes are written to frame_<i>.png; an image with      *)
(* alpha is flattened and saved again, unless Pillow fails, which is       *)
(* swallowed.                                                              *)
SaveFrame(fs, i, mode, pillow_ok) ==
    LET written == WriteFile(fs, ImgResult(i).path, <<"img", i>>, <<At(prompts, i), mode>>)
    IN  IF mode # "RGB" /\ pillow_ok
        THEN WriteFile(written, ImgResult(i).path, <<"img", i>>, <<At(prompts, i), "RGB">>)
        ELSE written

ImgSucceeds(i) ==
    /\ \E mode \in ImageModes, pillow_ok \in BOOLEAN :
          files' = SaveFrame(files, i, mode, pillow_ok)
    /\ img' = [img EXCEPT
            !.permits = @ + 1,
            !.tasks[i + 1].pc = "done",
            !.tasks[i + 1].result = ImgResult(i),
            !.completed = Append(@, i)]

(* Lines 39-47, 58-76: dall-e-3 answered with an image.                    *)
ImgFirstModelAnswers(i) ==
    /\ ImgLive
    /\ ImgPc(i) = "dall-e-3"
    /\ img.quota = "ok"
    /\ ImgSucceeds(i)
    /\ UNCHANGED <<toolVars, scenes, timerVars, composeVars, ttsVars, prompts, img_concurrency>>

(* Lines 48-55: the dall-e-3 request raised; the same attempt asks         *)
(* gpt-image-1.                                                            *)
ImgFirstModelRaises(i) ==
    /\ ImgLive
    /\ ImgPc(i) = "dall-e-3"
    /\ img' = [img EXCEPT
            !.tasks[i + 1].pc = "gpt-image-1",
            !.tasks[i + 1].requests = @ + 1]
    /\ UNCHANGED <<toolVars, scenes, timerVars, composeVars, ttsVars, prompts, img_concurrency, files>>

(* Lines 50-76: gpt-image-1 answered with an image.                        *)
ImgSecondModelAnswers(i) ==
    /\ ImgLive
    /\ ImgPc(i) = "gpt-image-1"
    /\ img.quota = "ok"
    /\ ImgSucceeds(i)
    /\ UNCHANGED <<toolVars, scenes, timerVars, composeVars, ttsVars, prompts, img_concurrency>>

(* A variant whose attempt ceiling is one higher.                          *)
ImgSecondModelRaisesOneMore(i) ==
    /\ ImgLive
    /\ ImgPc(i) = "gpt-image-1"
    /\ IF At(img.tasks, i).attempt < MaxAttempts + 1
       THEN img' = [img EXCEPT !.tasks[i + 1].pc = "backoff"]
       ELSE img' = [img EXCEPT
               !.permits = @ + 1,
               !.tasks[i + 1].pc = "failed",
               !.completed = Append(@, i),
               !.status = IF @ = "running" THEN "raised" ELSE @,
               !.error = IF img.status = "running" THEN "RetryError" ELSE @]
    /\ UNCHANGED <<toolVars, scenes, timerVars, composeVars, ttsVars, prompts, img_concurrency, files>>

(* Line 34: the attempt raised.  Below the attempt ceiling tenacity        *)
(* sleeps and retries; at the ceiling it raises RetryError, the task       *)
(* leaves the semaphore and gather raises its first exception.             *)
ImgSecondModelRaises(i) ==
    /\ ImgLive
    /\ ImgPc(i) = "gpt-image-1"
    /\ IF At(img.tasks, i).attempt < MaxAttempts
       THEN img' = [img EXCEPT !.tasks[i + 1].pc = "backoff"]
       ELSE img' = [img EXCEPT
               !.permits = @ + 1,
               !.tasks[i + 1].pc = "failed",
               !.completed = Append(@, i),
               !.status = IF @ = "running" THEN "raised" ELSE @,
               !.error = IF img.status = "running" THEN "RetryError" ELSE @]
    /\ UNCHANGED <<toolVars, scenes, timerVars, composeVars, ttsVars, prompts, img_concurrency, files>>

(* Line 34: the wait is over, the next attempt asks dall-e-3 again.        *)
ImgRetry(i) ==
    /\ ImgLive
    /\ ImgPc(i) = "backoff"
    /\ img' = [img EXCEPT
            !.tasks[i + 1].pc = "dall-e-3",
            !.tasks[i + 1].attempt = @ + 1,
            !.tasks[i + 1].requests = @ + 1]
    /\ UNCHANGED <<toolVars, scenes, timerVars, composeVars, ttsVars, prompts, img_concurrency, files>>

(* A variant of the gather that skips failed tasks and returns what is    *)
(* left (the preset paths).                                                *)
ImgGatherSkipsFailures ==
    /\ img.status \in {"running", "raised"}
    /\ img.tasks # <<>>
    /\ \A i \in ImgIndices : ImgPc(i) \in {"done", "failed"}
    /\ img' = [img EXCEPT
            !.status = "returned",
            !.output = [k \in 1..Len(img.tasks) |-> FramePath(k - 1)]]
    /\ UNCHANGED <<toolVars, scenes, timerVars, composeVars, ttsVars, prompts, img_concurrency,
                   files>>

(* Lines 276-280: gather returned every result; the paths by index.        *)
ImgGather ==
    /\ img.status = "running"
    /\ ~LoopBlocked
    /\ \A i \in ImgIndices : ImgPc(i) = "done"
    /\ img' = [img EXCEPT
            !.status = "returned",
            !.output = image_ordered_paths(GatherResults(img.tasks))]
    /\ UNCHANGED <<toolVars, scenes, timerVars, composeVars, ttsVars, prompts, img_concurrency, files>>

(* The event loop closes after the batch raised: pending tasks are         *)
(* cancelled.                                                              *)
ImgCancel ==
    /\ img.status = "raised"
    /\ ~LoopBlocked
    /\ \E i \in ImgIndices : ImgPc(i) \in {"waiting"} \cup {"dall-e-3", "gpt-image-1", "backoff"}
    /\ img' = [img EXCEPT
            !.permits = @ + Cardinality(ImgHolders),
            !.tasks = [k \in 1..Len(img.tasks) |->
                          IF img.tasks[k].pc \in {"done", "failed"}
                          THEN img.tasks[k]
                          ELSE [img.tasks[k] EXCEPT !.pc = "cancelled"]]]
    /\ UNCHANGED <<toolVars, scenes, timerVars, composeVars, ttsVars, prompts, img_concurrency, files>>

ImgInit ==
    /\ prompts \in PromptLists
    /\ img_concurrency \in 1..MaxConcurrency
    /\ \E quota \in QuotaStates :
          img = [ImgIdle EXCEPT !.status = "called", !.quota = quota]

(* Each step of a task is taken by some task of the batch.                 *)
ImgTaskAcquires == \E i \in ImgIndices : ImgAcquire(i)

ImgTaskFirstModelAnswers == \E i \in ImgIndices : ImgFirstModelAnswers(i)

ImgTaskFirstModelRaises == \E i \in ImgIndices : ImgFirstModelRaises(i)

ImgTaskSecondModelAnswers == \E i \in ImgIndices : ImgSecondModelAnswers(i)

ImgTaskSecondModelRaises == \E i \in ImgIndices : ImgSecondModelRaises(i)

ImgTaskRetries == \E i \in ImgIndices : ImgRetry(i)

ImgNext ==
    \/ ImgCall
    \/ ImgTaskAcquires
    \/ ImgTaskFirstModelAnswers
    \/ ImgTaskFirstModelRaises
    \/ ImgTaskSecondModelAnswers
    \/ ImgTaskSecondModelRaises
    \/ ImgTaskRetries
    \/ ImgGather
    \/ ImgCancel

----------------------------------------------------------------------------
(* stitch.stitch_video                                                     *)

(* The keyword-only parameters of stitch_video, lines 91-94.               *)
StitchKeywords == {"alignment", "scenes"}

OutputPath == <<"video.mp4", 0>>

(* Exit codes of an external process: 0 and a non-zero one.                *)
ExitCodes == {0, 1}

(* A variant of subprocess.run without check=True: any exit code passes.   *)
UncheckedRun(exit) == TRUE

(* subprocess.run(cmd, check=True) returns only on exit code 0 and raises  *)
(* CalledProcessError otherwise.                                           *)
CheckedRun(exit) == exit = 0

FileLine(path) == <<"file", path>>

DurationLine(dur) == <<"duration", dur>>

(* Lines 134-137: zip(image_paths, durations) stops at the shorter list.   *)
RECURSIVE ManifestPairs(_, _)
ManifestPairs(paths, durations) ==
    IF paths = <<>> \/ durations = <<>> THEN <<>>
    ELSE <<FileLine(Head(paths)), DurationLine(Head(durations))>>
         \o ManifestPairs(Tail(paths), Tail(durations))

(* A variant without the repeated last frame.                              *)
ManifestNoRepeat(paths, durations) == ManifestPairs(paths, durations)

(* Lines 133-140: the pairs, then image_paths[-1] once more without a      *)
(* duration (paths is not empty).                                          *)
Manifest(paths, durations) ==
    ManifestPairs(paths, durations) \o <<FileLine(paths[Len(paths)])>>

StitchIdle ==
    [status |-> "idle", keywords |-> {}, error |-> "", processes |-> <<>>,
     durations |-> <<>>, manifest |-> <<>>, output |-> None]

StitchCalled(keywords) == [StitchIdle EXCEPT !.status = "called", !.keywords = keywords]

StitchRaises(msg, processes) ==
    [stitch EXCEPT !.status = "raised", !.error = msg, !.processes = processes]

(* Lines 84-110: a keyword the signature does not have is a TypeError at   *)
(* the call; then total_images = max(1, len(image_paths)) is compared      *)
(* with the scenes.                                                        *)
StitchEnter ==
    /\ stitch.status = "called"
    /\ LET total_images == Max(1, Len(image_paths))
       IN  stitch' =
              IF ~(stitch.keywords \subseteq StitchKeywords)
              THEN StitchRaises("TypeError: unexpected keyword argument", <<>>)
              ELSE IF scenes = <<>> \/ Len(scenes) # total_images
              THEN StitchRaises("scenes must be provided and match number of images",
                                <<>>)
              ELSE [stitch EXCEPT !.status = "checked"]
    /\ UNCHANGED <<toolVars, scenes, timerVars, ttsVars, imgVars, image_paths, pipeline, files>>

(* Lines 112-140: ffprobe reads the audio duration, the durations are      *)
(* computed from the alignment and the manifest is written;                *)
(* image_paths[-1] of an empty list is an IndexError.                      *)
StitchProbe ==
    /\ stitch.status = "checked"
    /\ \E exit \in ExitCodes :
          LET ran == Append(stitch.processes, <<"ffprobe", exit>>)
              timed == ComputeDurationsFromAlignment(alignment, scenes)
          IN  stitch' =
                 IF ~CheckedRun(exit)
                 THEN StitchRaises("CalledProcessError", ran)
                 ELSE IF timed.status = "raised"
                 THEN StitchRaises(timed.error, ran)
                 ELSE IF image_paths = <<>>
                 THEN [StitchRaises("IndexError: list index out of range", ran)
                          EXCEPT !.durations = timed.durations]
                 ELSE [stitch EXCEPT
                          !.status = "listed",
                          !.processes = ran,
                          !.durations = timed.durations,
                          !.manifest = Manifest(image_paths, timed.durations)]
    /\ UNCHANGED <<toolVars, scenes, timerVars, ttsVars, imgVars, image_paths, pipeline, files>>

(* Lines 142-161: ffmpeg turns the manifest into the silent video.         *)
StitchConcat ==
    /\ stitch.status = "listed"
    /\ \E exit \in ExitCodes :
          LET ran == Append(stitch.processes, <<"ffmpeg concat", exit>>)
          IN  stitch' = IF CheckedRun(exit)
                        THEN [stitch EXCEPT !.status = "silent", !.processes = ran]
                        ELSE StitchRaises("CalledProcessError", ran)
    /\ UNCHANGED <<toolVars, scenes, timerVars, ttsVars, imgVars, image_paths, pipeline, files>>

(* Lines 163-181: ffmpeg muxes the silent video with the audio, and        *)
(* stitch_video returns the output path.                                   *)
StitchMux ==
    /\ stitch.status = "silent"
    /\ \E exit \in ExitCodes :
          LET ran == Append(stitch.processes, <<"ffmpeg mux", exit>>)
          IN  IF CheckedRun(exit)
              THEN /\ stitch' = [stitch EXCEPT !.status = "returned",
                                               !.processes = ran,
                                               !.output = OutputPath]
                   /\ files' = WriteFile(files, OutputPath, <<"stitch", 0>>,
                                         stitch.manifest)
              ELSE /\ stitch' = StitchRaises("CalledProcessError", ran)
                   /\ UNCHANGED files
    /\ UNCHANGED <<toolVars, scenes, timerVars, ttsVars, imgVars, image_paths, pipeline>>

StitchNext ==
    \/ StitchEnter
    \/ StitchProbe
    \/ StitchConcat
    \/ StitchMux

----------------------------------------------------------------------------
(* pipeline.generate_video_pipeline and pipeline.render_video_from_scenes  *)

PipelineEntries == {"generate_video_pipeline", "render_video_from_scenes"}

PipelineIdle ==
    [status |-> "idle", entry |-> "generate_video_pipeline", error |-> "",
     images |-> "idle", image_paths |-> <<>>, video_path |-> None]

(* The keywords of the stitch_video call, lines 125-135 and 225-235.       *)
PipelineStitchKeywords == {"alignment", "scenes", "durations_by_scene"}

(* Lines 32-112 and 141-212: render_video_from_scenes refuses an empty     *)
(* scene list; otherwise run_parallel creates the image batch and the      *)
(* chunked synthesis on one event loop.                                    *)
PipelineStart ==
    /\ pipeline.status = "called"
    /\ IF pipeline.entry = "render_video_from_scenes" /\ scenes = <<>>
       THEN /\ pipeline' = [pipeline EXCEPT !.status = "raised",
                                            !.error = "scenes must not be empty"]
            /\ UNCHANGED tts
       ELSE /\ pipeline' = [pipeline EXCEPT !.status = "gathering",
                                            !.images = "pending"]
            /\ tts' = [TtsIdle EXCEPT !.status = "called"]
    /\ UNCHANGED <<toolVars, scenes, timerVars, model_id, tts_concurrency, imgVars,
                   image_paths, stitch, files>>

RECURSIVE FramesWritten(_, _)
FramesWritten(fs, n) ==
    IF n = 0 THEN fs
    ELSE WriteFile(FramesWritten(fs, n - 1), FramePath(n - 1), <<"img", n - 1>>,
                   <<At(scenes, n - 1)>>)

(* generate_images_async, the image batch of the pipeline: it returns one  *)
(* image path per scene, entry i being the frame of scene i.               *)
GenerateImagesAsyncReturns ==
    /\ pipeline.status = "gathering"
    /\ pipeline.images = "pending"
    /\ ~LoopBlocked
    /\ pipeline' = [pipeline EXCEPT
            !.images = "returned",
            !.image_paths = [k \in 1..Len(scenes) |-> FramePath(k - 1)]]
    /\ files' = FramesWritten(files, Len(scenes))
    /\ UNCHANGED <<toolVars, scenes, timerVars, ttsVars, imgVars, image_paths, stitch>>

(* generate_images_async raises when an image cannot be generated.         *)
GenerateImagesAsyncRaises ==
    /\ pipeline.status = "gathering"
    /\ pipeline.images = "pending"
    /\ ~LoopBlocked
    /\ pipeline' = [pipeline EXCEPT !.images = "raised"]
    /\ UNCHANGED <<toolVars, scenes, timerVars, ttsVars, imgVars, image_paths, stitch, files>>

(* A variant that goes on as soon as one of the batches has returned.      *)
RunParallelAnyReturned == pipeline.images = "returned" \/ tts.status = "returned"

(* Line 113: asyncio.gather(images_task, tts_task) returns when both       *)
(* have returned.                                                          *)
RunParallelReturned == pipeline.images = "returned" /\ tts.status = "returned"

(* Line 113: gather raises the first exception of either batch.            *)
RunParallelRaised == pipeline.images = "raised" \/ tts.status = "raised"

(* Lines 113-116: the exception leaves run_parallel and asyncio.run,       *)
(* which cancels what is still pending on the event loop.                  *)
PipelineGatherRaises ==
    /\ pipeline.status = "gathering"
    /\ RunParallelRaised
    /\ ~LoopBlocked
    /\ pipeline' = [pipeline EXCEPT
            !.status = "raised",
            !.error = IF tts.status = "raised" THEN tts.error ELSE "image batch failed",
            !.images = IF @ = "pending" THEN "cancelled" ELSE @]
    /\ tts' = [tts EXCEPT
            !.status = IF @ \in {"called", "running"} THEN "cancelled" ELSE @,
            !.permits = @ + Cardinality(TtsInFlight),
            !.tasks = [k \in 1..Len(tts.tasks) |->
                          IF tts.tasks[k].pc \in {"waiting", "inflight"}
                          THEN [tts.tasks[k] EXCEPT !.pc = "cancelled"]
                          ELSE tts.tasks[k]]]
    /\ UNCHANGED <<toolVars, scenes, timerVars, model_id, tts_concurrency, imgVars,
                   image_paths, stitch, files>>

(* Lines 113-135: both batches returned; stitch_video is called with       *)
(* alignment=None, the scenes and durations_by_scene.                      *)
PipelineStitch ==
    /\ pipeline.status = "gathering"
    /\ RunParallelReturned
    /\ pipeline' = [pipeline EXCEPT !.status = "stitching"]
    /\ image_paths' = pipeline.image_paths
    /\ stitch' = StitchCalled(PipelineStitchKeywords)
    /\ UNCHANGED <<toolVars, scenes, timerVars, ttsVars, imgVars, files>>

(* Lines 125-138: stitch_video raised, or returned the video path that     *)
(* the pipeline returns.                                                   *)
PipelineStitchEnds ==
    /\ pipeline.status = "stitching"
    /\ stitch.status \in {"raised", "returned"}
    /\ pipeline' = IF stitch.status = "raised"
                   THEN [pipeline EXCEPT !.status = "raised", !.error = stitch.error]
                   ELSE [pipeline EXCEPT !.status = "returned",
                                         !.video_path = stitch.output]
    /\ UNCHANGED <<toolVars, scenes, timerVars, ttsVars, imgVars, image_paths, stitch, files>>

(* The steps of a pipeline run.  The stitch_video call of the pipeline     *)
(* ends in StitchEnter.                                                    *)
PipelineNext ==
    \/ PipelineStart
    \/ GenerateImagesAsyncReturns
    \/ GenerateImagesAsyncRaises
    \/ TtsNext
    \/ PipelineGatherRaises
    \/ PipelineStitch
    \/ StitchEnter
    \/ PipelineStitchEnds

----------------------------------------------------------------------------
(* scriptgen.generate_scenes                                               *)

(* stop_after_attempt(3) of generate_scenes.                               *)
ScenesMaxAttempts == 3

(* The k-th scene of a provider answer: told apart by its script.          *)
ReturnedScene(k) == Scene([j \in 1..k |-> "a"])

(* What the chat completion answers: JSON that validates as a Scenario     *)
(* with any number of scenes (none included), or content that does not     *)
(* (no JSON, no "scenes" list, "{}" for an empty content).                 *)
ProviderAnswers ==
    {[valid |-> TRUE, scenes |-> [k \in 1..n |-> ReturnedScene(k)]] : n \in 0..MaxReturned}
    \cup {[valid |-> FALSE, scenes |-> <<>>]}

NoAnswer == [valid |-> FALSE, scenes |-> <<>>]

(* What generate_script returns: a stripped text of words, full stops and  *)
(* blanks.                                                                 *)
FallbackScripts ==
    {s \in SeqsUpTo({"a", ".", " "}, MaxFallbackChars) : Strip(s) = s}

(* Lines 150-156: truncate, or pad a non-empty list with its last scene.   *)
EnforceCount(scs, num_scenes) ==
    IF Len(scs) > num_scenes THEN SubSeq(scs, 1, num_scenes)
    ELSE IF Len(scs) < num_scenes /\ scs # <<>>
    THEN [k \in 1..num_scenes |-> IF k <= Len(scs) THEN scs[k] ELSE scs[Len(scs)]]
    ELSE scs

(* str.split(".")                                                          *)
RECURSIVE SplitDot(_)
SplitDot(s) ==
    IF \A k \in 1..Len(s) : s[k] # "." THEN <<s>>
    ELSE LET k == CHOOSE i \in 1..Len(s) : s[i] = "." /\ \A j \in 1..(i - 1) : s[j] # "."
         IN  <<SubSeq(s, 1, k - 1)>> \o SplitDot(SubSeq(s, k + 1, Len(s)))

NonEmptyText(text) == text # <<>>

(* " ".join(texts)                                                         *)
RECURSIVE JoinTexts(_)
JoinTexts(texts) ==
    IF texts = <<>> THEN <<>>
    ELSE IF Len(texts) = 1 THEN texts[1]
    ELSE texts[1] \o <<" ">> \o JoinTexts(Tail(texts))

(* Lines 160-166: the stripped non-empty sentences (the whole script when  *)
(* there is none), grouped into buckets of bucket_size sentences.          *)
Buckets(fallback_script, num_scenes) ==
    LET pieces == SplitDot(fallback_script)
        sentences == SelectSeq([k \in 1..Len(pieces) |-> Strip(pieces[k])], NonEmptyText)
        split == IF sentences = <<>> THEN <<fallback_script>> ELSE sentences
        bucket_size == Max(1, Len(split) \div Max(1, num_scenes))
        count == (Len(split) + bucket_size - 1) \div bucket_size
        joined == [b \in 1..count |->
                      Strip(JoinTexts(SubSeq(split, (b - 1) * bucket_size + 1,
                                             Min(b * bucket_size, Len(split)))))]
    IN  SelectSeq(joined, NonEmptyText)

(* Lines 167-170: the buckets padded with the last one and cut to          *)
(* num_scenes, one scene per bucket.  The caller has checked that there    *)
(* is a bucket.                                                            *)
FallbackScenes(buckets, num_scenes) ==
    [k \in 1..num_scenes |->
        Scene(IF k <= Len(buckets) THEN buckets[k] ELSE buckets[Len(buckets)])]

ScenesIdle ==
    [status |-> "idle", num_scenes |-> 1, attempt |-> 0, answer |-> NoAnswer,
     fallback_script |-> <<>>, output |-> <<>>, error |-> ""]

(* Line 45: the attempt raised; tenacity calls the function again, or      *)
(* raises RetryError after the last attempt.                               *)
ScenesAttemptRaised(msg) ==
    IF scriptgen.attempt < ScenesMaxAttempts
    THEN [scriptgen EXCEPT !.status = "called", !.attempt = @ + 1, !.error = msg]
    ELSE [scriptgen EXCEPT !.status = "raised", !.error = "RetryError"]

(* Lines 135-157: the provider answered.  A valid scenario is returned     *)
(* with the count enforced; anything else goes to the fallback.            *)
GenerateScenesAnswered ==
    /\ scriptgen.status = "called"
    /\ \E answer \in ProviderAnswers :
          scriptgen' =
              IF answer.valid
              THEN [scriptgen EXCEPT
                       !.status = "returned",
                       !.answer = answer,
                       !.output = EnforceCount(answer.scenes, scriptgen.num_scenes)]
              ELSE [scriptgen EXCEPT !.status = "fallback", !.answer = answer]
    /\ UNCHANGED <<chat, scenes, timerVars, ttsVars, imgVars, composeVars, files>>

(* Line 135: the request raised.                                           *)
GenerateScenesRequestRaises ==
    /\ scriptgen.status = "called"
    /\ scriptgen' = ScenesAttemptRaised("provider error")
    /\ UNCHANGED <<chat, scenes, timerVars, ttsVars, imgVars, composeVars, files>>

(* Lines 159-170: generate_script returned a text.  Without a bucket       *)
(* buckets[-1] raises IndexError; otherwise num_scenes scenes are          *)
(* returned.                                                               *)
GenerateScenesFallback ==
    /\ scriptgen.status = "fallback"
    /\ \E fallback_script \in FallbackScripts :
          LET buckets == Buckets(fallback_script, scriptgen.num_scenes)
          IN  scriptgen' =
                  IF buckets = <<>>
                  THEN [ScenesAttemptRaised("IndexError") EXCEPT
                           !.fallback_script = fallback_script]
                  ELSE [scriptgen EXCEPT
                           !.status = "returned",
                           !.fallback_script = fallback_script,
                           !.output = FallbackScenes(buckets, scriptgen.num_scenes)]
    /\ UNCHANGED <<chat, scenes, timerVars, ttsVars, imgVars, composeVars, files>>

(* Line 159: generate_script gave up (RetryError after its own attempts).  *)
GenerateScenesFallbackRaises ==
    /\ scriptgen.status = "fallback"
    /\ scriptgen' = ScenesAttemptRaised("RetryError of generate_script")
    /\ UNCHANGED <<chat, scenes, timerVars, ttsVars, imgVars, composeVars, files>>

ScenesNext ==
    \/ GenerateScenesAnswered
    \/ GenerateScenesRequestRaises
    \/ GenerateScenesFallback
    \/ GenerateScenesFallbackRaises

----------------------------------------------------------------------------
(* openai_utils.chat_completion_with_fallback                              *)

(* DEFAULT_CHAT_MODEL_CANDIDATES, lines 11-15.                             *)
DEFAULT_CHAT_MODEL_CANDIDATES == <<"gpt-4o-mini", "gpt-4o", "gpt-3.5-turbo">>

(* The candidate lists explored: every list of up to MaxCandidates of the  *)
(* default names, the empty list and lists with repeats included.          *)
CandidateLists ==
    SeqsUpTo({DEFAULT_CHAT_MODEL_CANDIDATES[k] : k \in 1..3}, MaxCandidates)

(* message.content of a 200 answer: None, or a text.                       *)
ChatContents == {None, <<>>, <<"a">>, <<" ", "a", " ">>}

(* The exceptions a call can raise, by the handler that takes them.        *)
ChatExceptions == {"RateLimitError", "APIStatusError", "Exception"}

NoChatOutput == [content |-> None, used_model |-> ""]

ChatIdle ==
    [status |-> "idle", model_candidates |-> <<>>, next |-> 0, calls |-> <<>>,
     outcomes |-> <<>>, last_error |-> None, output |-> NoChatOutput, error |-> None]

(* The candidate the loop of line 55 is at.                                *)
ChatModelName == At(chat.model_candidates, chat.next)

ChatInLoop == chat.status = "called" /\ chat.next < Len(chat.model_candidates)

(* Line 65-66: (content or "").strip()                                     *)
ChatContent(content) == Strip(IF content = None THEN <<>> ELSE content)

(* A variant that keeps the answer and goes on to the next candidate.      *)
ChatCandidateSucceedsGoesOn ==
    /\ ChatInLoop
    /\ \E content \in ChatContents :
          chat' = [chat EXCEPT
              !.next = @ + 1,
              !.calls = Append(@, ChatModelName),
              !.outcomes = Append(@, "200"),
              !.output = [content |-> ChatContent(content), used_model |-> ChatModelName]]
    /\ UNCHANGED <<scriptgen, scenes, timerVars, ttsVars, imgVars, composeVars, files>>

(* Lines 57-66: the call answered 200; its content and the model name are  *)
(* returned.                                                               *)
ChatCandidateSucceeds ==
    /\ ChatInLoop
    /\ \E content \in ChatContents :
          chat' = [chat EXCEPT
              !.status = "returned",
              !.calls = Append(@, ChatModelName),
              !.outcomes = Append(@, "200"),
              !.output = [content |-> ChatContent(content), used_model |-> ChatModelName]]
    /\ UNCHANGED <<scriptgen, scenes, timerVars, ttsVars, imgVars, composeVars, files>>

(* Lines 67-69: an answer that is not 200 and did not raise: an            *)
(* OpenAIError is kept and the loop goes on.                               *)
ChatCandidateNot200 ==
    /\ ChatInLoop
    /\ chat' = [chat EXCEPT
            !.next = @ + 1,
            !.calls = Append(@, ChatModelName),
            !.outcomes = Append(@, "not 200"),
            !.last_error = <<"OpenAIError", ChatModelName>>]
    /\ UNCHANGED <<scriptgen, scenes, timerVars, ttsVars, imgVars, composeVars, files>>

(* Lines 70-89: the call raised; the exception is kept and the loop goes   *)
(* on.                                                                     *)
ChatCandidateRaises ==
    /\ ChatInLoop
    /\ \E exception \in ChatExceptions :
          chat' = [chat EXCEPT
              !.next = @ + 1,
              !.calls = Append(@, ChatModelName),
              !.outcomes = Append(@, exception),
              !.last_error = <<exception, ChatModelName>>]
    /\ UNCHANGED <<scriptgen, scenes, timerVars, ttsVars, imgVars, composeVars, files>>

(* Lines 91-93: the candidates are used up.                                *)
ChatExhausted ==
    /\ chat.status = "called"
    /\ chat.next >= Len(chat.model_candidates)
    /\ chat' = [chat EXCEPT
            !.status = "raised",
            !.error = IF chat.last_error # None THEN chat.last_error
                      ELSE <<"RuntimeError", "">>]
    /\ UNCHANGED <<scriptgen, scenes, timerVars, ttsVars, imgVars, composeVars, files>>

ChatNext ==
    \/ ChatCandidateSucceeds
    \/ ChatCandidateNot200
    \/ ChatCandidateRaises
    \/ ChatExhausted

----------------------------------------------------------------------------
(* A run of one batch: the chunked speech synthesis or the image batch,    *)
(* each as its own call on its own event loop.                             *)

TtsNotCalled ==
    /\ model_id = "eleven_turbo_v2"
    /\ tts_concurrency = 1
    /\ tts = TtsIdle

ImgNotCalled ==
    /\ prompts = <<>>
    /\ img_concurrency = 1
    /\ img = ImgIdle

TimerNotCalled ==
    /\ alignment = NoAlignment
    /\ timer = NotCalled

StitchNotCalled ==
    /\ image_paths = <<>>
    /\ stitch = StitchIdle

PipelineNotCalled == pipeline = PipelineIdle

ToolsNotCalled ==
    /\ scriptgen = ScenesIdle
    /\ chat = ChatIdle

Init ==
    /\ files = NoFiles
    /\ TimerNotCalled
    /\ StitchNotCalled
    /\ PipelineNotCalled
    /\ ToolsNotCalled
    /\ \/ TtsInit /\ ImgNotCalled
       \/ ImgInit /\ TtsNotCalled /\ scenes = <<>>

Next == TtsNext \/ ImgNext

Spec == Init /\ [][Next]_vars

----------------------------------------------------------------------------
(* The duration computation as a state machine: the inputs are drawn in    *)
(* the initial state and one step applies the function.                    *)

TimerInit ==
    /\ scenes \in TimerSceneLists
    /\ alignment \in Alignments
    /\ timer = NotCalled
    /\ TtsNotCalled
    /\ ImgNotCalled
    /\ StitchNotCalled
    /\ PipelineNotCalled
    /\ ToolsNotCalled
    /\ files = NoFiles

CallComputeDurations ==
    /\ timer.status = "not_called"
    /\ timer' = ComputeDurationsFromAlignment(alignment, scenes)
    /\ UNCHANGED <<toolVars, scenes, alignment, ttsVars, imgVars, composeVars, files>>

TimerNext == CallComputeDurations

TimerSpec == TimerInit /\ [][TimerNext]_vars

----------------------------------------------------------------------------
(* A stitch_video call on its own: scenes, an alignment of the joined      *)
(* text's length (or none) and any number of image paths.                  *)

StitchAlignments(sc) ==
    {NoAlignment}
    \cup {al \in OrderedAlignments : Len(al.characters) = Len(JoinScripts(sc))}

StitchImagePaths == {[k \in 1..n |-> FramePath(k - 1)] : n \in 0..(MaxScenes + 1)}

StitchInit ==
    /\ scenes \in TimerSceneLists
    /\ alignment \in StitchAlignments(scenes)
    /\ timer = NotCalled
    /\ image_paths \in StitchImagePaths
    /\ stitch = StitchCalled(StitchKeywords)
    /\ PipelineNotCalled
    /\ ToolsNotCalled
    /\ TtsNotCalled
    /\ ImgNotCalled
    /\ files = NoFiles

StitchSpec == StitchInit /\ [][StitchNext]_vars

----------------------------------------------------------------------------
(* A pipeline run: both entry points, any scenes, speech model and         *)
(* speech concurrency.                                                     *)

PipelineInit ==
    /\ scenes \in SpeechSceneLists
    /\ model_id \in SpeechModels
    /\ tts_concurrency \in 1..MaxConcurrency
    /\ tts = TtsIdle
    /\ \E entry \in PipelineEntries :
          pipeline = [PipelineIdle EXCEPT !.status = "called", !.entry = entry]
    /\ ToolsNotCalled
    /\ TimerNotCalled
    /\ StitchNotCalled
    /\ ImgNotCalled
    /\ files = NoFiles

PipelineSpec == PipelineInit /\ [][PipelineNext]_vars

----------------------------------------------------------------------------
(* The two batches of run_parallel on one event loop and in one working    *)
(* directory: the chunked synthesis of the scenes and the image batch of   *)
(* images.py with one prompt per scene.  Their steps interleave in any     *)
(* order the loop allows.                                                  *)

(* Two scenes with a narration each, and the concurrency generate_images  *)
(* gives its batch (images.py 249).                                        *)
SharedDirScenes == <<Scene(<<"a">>), Scene(<<"b">>)>>

SharedDirInit ==
    /\ scenes = SharedDirScenes
    /\ model_id = "eleven_turbo_v2"
    /\ tts_concurrency \in 1..MaxConcurrency
    /\ tts = [TtsIdle EXCEPT !.status = "called"]
    /\ prompts = [k \in 1..Len(scenes) |-> <<"prompt", k>>]
    /\ img_concurrency = Min(12, Max(1, Len(prompts)))
    /\ img = [ImgIdle EXCEPT !.status = "called"]
    /\ TimerNotCalled
    /\ StitchNotCalled
    /\ PipelineNotCalled
    /\ ToolsNotCalled
    /\ files = NoFiles

SharedDirSpec == SharedDirInit /\ [][Next]_vars

----------------------------------------------------------------------------
(* A generate_scenes call for any num_scenes >= 1, and a                   *)
(* chat_completion_with_fallback call for any candidate list.              *)

BatchesNotCalled ==
    /\ scenes = <<>>
    /\ files = NoFiles
    /\ TimerNotCalled
    /\ TtsNotCalled
    /\ ImgNotCalled
    /\ StitchNotCalled
    /\ PipelineNotCalled

ScenesInit ==
    /\ \E num_scenes \in 1..MaxNumScenes :
          scriptgen = [ScenesIdle EXCEPT !.status = "called", !.attempt = 1,
                                         !.num_scenes = num_scenes]
    /\ chat = ChatIdle
    /\ BatchesNotCalled

ScenesSpec == ScenesInit /\ [][ScenesNext]_vars

ChatInit ==
    /\ \E model_candidates \in CandidateLists :
          chat = [ChatIdle EXCEPT !.status = "called",
                                  !.model_candidates = model_candidates]
    /\ scriptgen = ScenesIdle
    /\ BatchesNotCalled

ChatSpec == ChatInit /\ [][ChatNext]_vars

----------------------------------------------------------------------------
(* One batch of up to three items, with the scheduling of the event loop:  *)
(* a step that stays possible is taken (a ready task runs, a provider      *)
(* call returns or raises, a started process exits).                       *)

FairScenes == <<Scene(<<"a">>), Scene(<<"a">>), Scene(<<"a">>)>>

FairInit ==
    /\ files = NoFiles
    /\ TimerNotCalled
    /\ StitchNotCalled
    /\ PipelineNotCalled
    /\ ToolsNotCalled
    /\ \E n \in 1..Len(FairScenes) :
          \/ /\ scenes = SubSeq(FairScenes, 1, n)
             /\ model_id = "eleven_turbo_v2"
             /\ tts_concurrency \in 1..MaxConcurrency
             /\ tts = [TtsIdle EXCEPT !.status = "called"]
             /\ ImgNotCalled
          \/ /\ prompts = [k \in 1..n |-> <<"prompt", k>>]
             /\ img_concurrency \in 1..MaxConcurrency
             /\ \E quota \in QuotaStates :
                   img = [ImgIdle EXCEPT !.status = "called", !.quota = quota]
             /\ TtsNotCalled
             /\ scenes = <<>>

FairSpec == FairInit /\ [][Next]_vars /\ WF_vars(Next)

----------------------------------------------------------------------------
(* Properties of the duration computation (checked under TimerSpec).       *)

TimerCalled == timer.status # "not_called"

TimerReturned == timer.status = "returned"

(* Scene i's (1-based) character range, computed from the text lengths     *)
(* alone: every earlier scene takes its length plus one separator.         *)
SceneStart(i) == SumSeq([j \in 1..(i - 1) |-> Len(scenes[j].script) + 1])

SceneEnd(i) == SceneStart(i) + Len(scenes[i].script)

RawDuration(i) ==
    At(alignment.character_end_times_seconds, SceneEnd(i) - 1)
        - At(alignment.character_start_times_seconds, SceneStart(i))

LastEndTime ==
    alignment.character_end_times_seconds[Len(alignment.character_end_times_seconds)]

(* C1: whenever _compute_durations_from_alignment returns, it returns one  *)
(* duration per scene, duration i is max(0.1, end_times[end_idx_i - 1] -   *)
(* start_times[start_idx_i]), and so every duration is at least 0.1 > 0,   *)
(* also for a zero-width or reversed timing range.                         *)
C1_DurationsFloored ==
    TimerReturned =>
        /\ Len(timer.durations) = Len(scenes)
        /\ \A i \in 1..Len(scenes) :
              /\ timer.durations[i] = Max(Eps, RawDuration(i))
              /\ timer.durations[i] >= Eps
              /\ timer.durations[i] > 0

(* C1 witness: a two-scene call returned with a scene whose timing range   *)
(* is reversed and one whose range is zero-width, both floored.            *)
C1_Witness ==
    /\ TimerReturned
    /\ Len(scenes) = 2
    /\ \E i, j \in 1..2 :
          /\ RawDuration(i) < 0 /\ timer.durations[i] = Eps
          /\ RawDuration(j) = 0 /\ timer.durations[j] = Eps

(* C2 as stated: the returned durations sum to at most end_times[-1] plus  *)
(* one epsilon, for any input the validation accepts.                      *)
C2_SumWithinOneEps ==
    TimerReturned => SumSeq(timer.durations) <= LastEndTime + Eps

(* C2 amended: for an alignment with ordered non-negative timings          *)
(* (start[k] <= end[k] <= start[k+1]) the returned durations sum to at     *)
(* most end_times[-1] plus one epsilon per scene.                          *)
C2_SumWithinEpsPerScene ==
    (TimerReturned /\ OrderedTimings(alignment)) =>
        SumSeq(timer.durations) <= LastEndTime + Len(scenes) * Eps

(* C2 witness: an ordered alignment on which the sum exceeds               *)
(* end_times[-1] + epsilon because two scenes were floored.                *)
C2_Witness ==
    /\ TimerReturned
    /\ OrderedTimings(alignment)
    /\ Len(scenes) >= 2
    /\ SumSeq(timer.durations) > LastEndTime + Eps

(* C3 as stated: whenever the alignment's character count differs from    *)
(* the length of the joined scene text, in either direction, the call      *)
(* raises.                                                                 *)
C3_MismatchRaises ==
    (/\ TimerCalled
     /\ alignment.is_dict
     /\ Len(alignment.characters) # Len(JoinScripts(scenes)))
        => timer.status = "raised"

(* C4: if some scene's exclusive end index exceeds len(characters), the    *)
(* whole call raises and returns no duration, whichever scene it is.       *)
C4_OutOfBoundsRaises ==
    (/\ TimerCalled
     /\ \E i \in 1..Len(scenes) : SceneEnd(i) > Len(alignment.characters))
        => /\ timer.status = "raised"
           /\ timer.durations = <<>>

(* C4 witness: a valid alignment covers the first scene but not the        *)
(* second, and the call raised the out-of-bounds error.                    *)
C4_Witness ==
    /\ timer.status = "raised"
    /\ timer.error = "scene index range is out of alignment bounds"
    /\ Len(scenes) = 2
    /\ Len(scenes[1].script) > 0 /\ Len(scenes[2].script) > 0
    /\ SceneEnd(1) <= Len(alignment.characters)
    /\ SceneEnd(2) > Len(alignment.characters)

(* C5 as stated: the ranges are contiguous (each starts where the          *)
(* previous one ends) and exactly cover [0, total_characters).             *)
C5_RangesContiguous ==
    TimerReturned =>
        /\ timer.ranges[1].start_idx = 0
        /\ \A i \in 1..(Len(timer.ranges) - 1) :
              timer.ranges[i + 1].start_idx = timer.ranges[i].end_idx_exclusive
        /\ timer.ranges[Len(timer.ranges)].end_idx_exclusive = Len(alignment.characters)

(* C5 amended: the ranges are in scene order and one index apart (the      *)
(* single-space separator belongs to no range): the first starts at 0,     *)
(* each next one starts at the previous end + 1, range i is exactly where  *)
(* scene i's text sits in " ".join(scripts), the last one ends at the      *)
(* length of that joined text, and on return it is within the alignment.   *)
C5_RangesSeparatedByOne ==
    timer.ranges # <<>> =>
        LET rs == timer.ranges
            joined == JoinScripts(scenes)
        IN  /\ Len(rs) = Len(scenes)
            /\ rs[1].start_idx = 0
            /\ \A i \in 1..(Len(rs) - 1) :
                  rs[i + 1].start_idx = rs[i].end_idx_exclusive + 1
            /\ \A i \in 1..Len(rs) :
                  SubSeq(joined, rs[i].start_idx + 1, rs[i].end_idx_exclusive)
                      = scenes[i].script
            /\ rs[Len(rs)].end_idx_exclusive = Len(joined)
            /\ TimerReturned =>
                  rs[Len(rs)].end_idx_exclusive <= Len(alignment.characters)

(* C5 witness: a two-scene call returned with the second range starting    *)
(* one past the end of the first.                                          *)
C5_Witness ==
    /\ TimerReturned
    /\ Len(timer.ranges) = 2
    /\ timer.ranges[2].start_idx = timer.ranges[1].end_idx_exclusive + 1
    /\ timer.ranges[2].end_idx_exclusive = Len(alignment.characters)

(* C6 as stated: for a whole-track alignment (ordered timings starting at  *)
(* 0, as long as the joined text, no duration floored) the durations       *)
(* partition the timeline, so they sum to end_times[-1].                   *)
C6_DurationsPartitionTimeline ==
    (/\ TimerReturned
     /\ OrderedTimings(alignment)
     /\ Len(alignment.characters) = Len(JoinScripts(scenes))
     /\ alignment.character_start_times_seconds[1] = 0
     /\ \A i \in 1..Len(scenes) : RawDuration(i) >= Eps)
        => SumSeq(timer.durations) = LastEndTime

----------------------------------------------------------------------------
(* Properties of the two batches (checked under Spec).                     *)

TtsRequested == {i \in TtsIndices : At(tts.tasks, i).request # NoRequest}

(* C7 as stated: the request for scene i carries scene i's script as       *)
(* text, previous_text = scene i-1's script exactly when i > 0, and        *)
(* next_text = scene i+1's script exactly when i is not the last scene.    *)
C7_ContextExactlyByPosition ==
    \A i \in TtsRequested :
        LET request == At(tts.tasks, i).request
        IN  /\ request.text = At(scenes, i).script
            /\ ("previous_text" \in request.keys) <=> (i > 0)
            /\ i > 0 => request.previous_text = At(scenes, i - 1).script
            /\ ("next_text" \in request.keys) <=> (i + 1 < Len(scenes))
            /\ i + 1 < Len(scenes) => request.next_text = At(scenes, i + 1).script

(* C7 amended: the request for scene i carries scene i's script as text;   *)
(* previous_text is present exactly when i > 0 and scene i-1's script is   *)
(* not empty, and is then that script; next_text is present exactly when   *)
(* i is not the last scene and scene i+1's script is not empty, and is     *)
(* then that script.                                                       *)
C7_ContextWhenNeighbourNonEmpty ==
    \A i \in TtsRequested :
        LET request == At(tts.tasks, i).request
            has_previous == i > 0 /\ At(scenes, i - 1).script # <<>>
            has_next == i + 1 < Len(scenes) /\ At(scenes, i + 1).script # <<>>
        IN  /\ request.text = At(scenes, i).script
            /\ "text" \in request.keys
            /\ ("previous_text" \in request.keys) <=> has_previous
            /\ request.previous_text
                  = (IF has_previous THEN At(scenes, i - 1).script ELSE None)
            /\ ("next_text" \in request.keys) <=> has_next
            /\ request.next_text
                  = (IF has_next THEN At(scenes, i + 1).script ELSE None)

(* C7 witness: two scenes with different non-empty scripts, both requests  *)
(* built: the first has next_text only, the second previous_text only.     *)
C7_Witness ==
    /\ Len(scenes) = 2
    /\ scenes[1].script = <<"a">> /\ scenes[2].script = <<"b">>
    /\ TtsRequested = {0, 1}
    /\ At(tts.tasks, 0).request.next_text = <<"b">>
    /\ "previous_text" \notin At(tts.tasks, 0).request.keys
    /\ At(tts.tasks, 1).request.previous_text = <<"a">>
    /\ "next_text" \notin At(tts.tasks, 1).request.keys

(* C8: in every reachable state of a batch the provider requests in        *)
(* flight are at most the pool's limit: concurrency speech requests and    *)
(* concurrency image requests.                                             *)
C8_InFlightWithinLimit ==
    /\ Cardinality(TtsInFlight) <= tts_concurrency
    /\ Cardinality(ImgInFlight) <= img_concurrency

(* C8 witness: the image pool is full (as many requests in flight as the   *)
(* limit) with a request of a retried attempt, and a task still waits.     *)
C8_Witness ==
    /\ Cardinality(ImgInFlight) = img_concurrency
    /\ \E i \in ImgIndices : ImgPc(i) = "waiting"
    /\ \E i \in ImgInFlight : At(img.tasks, i).attempt > 1

(* C9: whenever the chunked synthesis returns, durations entry i is the    *)
(* duration of scene i's chunk (the last end time of the answer to scene   *)
(* i's request, whose audio is in chunk_<i>.mp3), and audio_chunks.txt     *)
(* names chunk 0, ..., chunk N-1 in that order, each once; this for every  *)
(* completion order.                                                       *)
C9_ChunksByIndex ==
    /\ ListPath \in DOMAIN files =>
          files[ListPath].data = [k \in 1..Len(scenes) |-> ChunkPath(k - 1)]
    /\ tts.status = "returned" =>
          /\ ListPath \in DOMAIN files
          /\ Len(tts.output.durations_by_scene) = Len(scenes)
          /\ \A i \in TtsIndices :
                /\ At(tts.output.durations_by_scene, i)
                      = ChunkDuration(At(tts.tasks, i).response)
                /\ At(tts.tasks, i).request.text = At(scenes, i).script
                /\ files[ChunkPath(i)].data = <<At(scenes, i).script>>

(* C9 witness: scene 1's chunk completed before scene 0's, with different  *)
(* durations, and the call returned.                                       *)
C9_Witness ==
    /\ tts.status = "returned"
    /\ tts.completed = <<1, 0>>
    /\ tts.output.durations_by_scene = <<MaxTime, Eps>>

(* C10: whenever the image batch returns, it returns exactly len(prompts)  *)
(* paths, entry i is frame_<i>.png and that file was generated from        *)
(* prompt i by task i; this for every completion order.                    *)
C10_FramesByIndex ==
    img.status = "returned" =>
        /\ Len(img.output) = Len(prompts)
        /\ \A i \in 0..(Len(prompts) - 1) :
              /\ At(img.output, i) = FramePath(i)
              /\ FramePath(i) \in DOMAIN files
              /\ files[FramePath(i)].writer = <<"img", i>>
              /\ files[FramePath(i)].data[1] = At(prompts, i)

(* C10 witness: with concurrency 2 the image of prompt 1 completed before  *)
(* the image of prompt 0, and the batch returned.                          *)
C10_Witness ==
    /\ img.status = "returned"
    /\ img_concurrency > 1
    /\ img.completed = <<1, 0>>
    /\ prompts[1] # prompts[2]

----------------------------------------------------------------------------
(* Failure propagation of the two batches (checked under Spec).            *)

(* C11: once an image task has used up its attempts, the image batch has   *)
(* raised: it has returned no list of paths, and no file stands in for     *)
(* the failed item's frame.                                                *)
C11_ExhaustedRetriesRaise ==
    \A i \in ImgIndices :
        ImgPc(i) = "failed" =>
            /\ img.status = "raised"
            /\ img.output = <<>>
            /\ FramePath(i) \notin DOMAIN files

(* C11 witness: of two images the first was generated and the second used  *)
(* up its attempts; the batch raised.                                      *)
C11_Witness ==
    /\ Len(img.tasks) = 2
    /\ ImgPc(0) = "done" /\ FramePath(0) \in DOMAIN files
    /\ ImgPc(1) = "failed" /\ At(img.tasks, 1).attempt = MaxAttempts
    /\ img.status = "raised"

(* C12: once a per-scene speech request has failed, the chunked synthesis  *)
(* has raised: audio_chunks.txt is not written, ffmpeg is not run, and     *)
(* neither an audio path nor durations are returned, whatever other        *)
(* chunks succeeded.                                                       *)
C12_ChunkFailureFailsSynthesis ==
    \A i \in TtsIndices :
        TtsPc(i) = "failed" =>
            /\ tts.status = "raised"
            /\ tts.output = NoTtsOutput
            /\ ListPath \notin DOMAIN files
            /\ FinalAudioPath \notin DOMAIN files
            /\ tts.error \notin {"ffmpeg is required", "CalledProcessError"}

(* C12 witness: of two scenes the first chunk was written and the second   *)
(* request failed; the call raised.                                        *)
C12_Witness ==
    /\ Len(tts.tasks) = 2
    /\ TtsPc(0) = "done" /\ ChunkPath(0) \in DOMAIN files
    /\ TtsPc(1) = "failed"
    /\ tts.status = "raised"

(* C13: a batch fails on provider errors only after some request has     *)
(* been attempted up to the attempt ceiling: an image item after           *)
(* MaxAttempts attempts, a speech chunk likewise.                          *)
C13_TransientRetriedToCeiling ==
    /\ img.status = "raised" =>
          \E i \in ImgIndices : At(img.tasks, i).attempt = MaxAttempts
    /\ (tts.status = "raised" /\ tts.error = "provider error") =>
          \E i \in TtsIndices : TtsAttempts(i) = MaxAttempts

(* C14: with the account out of quota, an image item issues no request     *)
(* after its first denial, and the error of the batch is                   *)
(* InsufficientOpenAIFundsError.                                           *)
C14_QuotaDenialNotRetried ==
    img.quota = "insufficient_quota" =>
        /\ \A i \in ImgIndices : At(img.tasks, i).requests <= 1
        /\ img.status = "raised" => img.error = "InsufficientOpenAIFundsError"

(* C15: with a speech model that rejects previous_text/next_text the      *)
(* chunked synthesis raises before any task exists: no synthesis request   *)
(* is issued and no chunk is written, for any number of scenes.            *)
C15_UnsupportedModelFailsFast ==
    model_id \in {"eleven_v3"} =>
        /\ tts.status \in {"idle", "called", "raised"}
        /\ tts.tasks = <<>>
        /\ TtsRequested = {}
        /\ \A i \in 0..(Len(scenes) - 1) : ChunkPath(i) \notin DOMAIN files

(* C15 witness: two scenes and model eleven_v3: the call raised on the     *)
(* model guard.                                                            *)
C15_Witness ==
    /\ model_id = "eleven_v3"
    /\ Len(scenes) = 2
    /\ tts.status = "raised"
    /\ tts.error = "model does not support previous_text/next_text"

----------------------------------------------------------------------------
(* Properties of the pipeline (checked under PipelineSpec).                *)

(* C16: stitch_video is called only after the image batch and the speech   *)
(* batch have both returned, when every frame and the audio track exist;   *)
(* if either batch raised, stitch_video is not called and no video path    *)
(* is returned.                                                            *)
C16_StitchAfterBothBatches ==
    /\ stitch.status # "idle" =>
          /\ pipeline.images = "returned"
          /\ tts.status = "returned"
          /\ FinalAudioPath \in DOMAIN files
          /\ Len(image_paths) = Len(scenes)
          /\ \A i \in 0..(Len(scenes) - 1) : At(image_paths, i) \in DOMAIN files
    /\ (pipeline.images = "raised" \/ tts.status = "raised") =>
          /\ stitch.status = "idle"
          /\ pipeline.status # "returned"
          /\ pipeline.video_path = None

(* C16 witness: two scenes, the second chunk completed before the first,   *)
(* both batches returned and stitch_video has been called.                 *)
C16_Witness ==
    /\ Len(scenes) = 2
    /\ tts.completed = <<1, 0>>
    /\ pipeline.status = "stitching"
    /\ stitch.status = "called"

(* C17: stitch_video called as the pipeline calls it (alignment=None,      *)
(* durations_by_scene given) does not fail on its arguments or for lack    *)
(* of an alignment.                                                        *)
C17_ComposeFromChunkDurations ==
    (stitch.keywords = PipelineStitchKeywords /\ stitch.status = "raised") =>
        stitch.error \notin
            {"TypeError: unexpected keyword argument",
             "alignment must be provided and be a dict with character-level timings"}

----------------------------------------------------------------------------
(* Properties of stitch_video (checked under StitchSpec).                  *)

(* C18: the manifest built from N >= 1 images and N durations is, for      *)
(* i = 0..N-1 in order, "file image_i" then "duration d_i", and then       *)
(* "file image_{N-1}" once more with no duration; nothing else.            *)
C18_ManifestLines ==
    stitch.manifest # <<>> =>
        LET N == Len(image_paths)
        IN  /\ N >= 1
            /\ Len(stitch.durations) = N
            /\ Len(stitch.manifest) = 2 * N + 1
            /\ \A i \in 1..N :
                  /\ stitch.manifest[2 * i - 1] = <<"file", image_paths[i]>>
                  /\ stitch.manifest[2 * i] = <<"duration", stitch.durations[i]>>
            /\ stitch.manifest[2 * N + 1] = <<"file", image_paths[N]>>

(* C18 witness: a manifest of two images with different durations.         *)
C18_Witness ==
    /\ stitch.status = "listed"
    /\ Len(image_paths) = 2
    /\ stitch.durations[1] # stitch.durations[2]
    /\ Len(stitch.manifest) = 5

(* C19: when the number of image paths differs from the number of scenes,  *)
(* stitch_video raises before it runs any process (ffprobe or ffmpeg).     *)
C19_LengthMismatchRejected ==
    (Len(image_paths) # Len(scenes) /\ stitch.status # "called") =>
        /\ stitch.status = "raised"
        /\ stitch.processes = <<>>

(* C20: the mux runs only right after an image concatenation that exited   *)
(* 0; a non-zero exit of a step is the last thing stitch_video does        *)
(* before it raises; it returns the output path only after concat and      *)
(* mux both exited 0.                                                      *)
C20_ConcatThenMux ==
    LET ps == stitch.processes
    IN  /\ \A k \in 1..Len(ps) :
              /\ ps[k][1] = "ffmpeg mux" =>
                    k > 1 /\ ps[k - 1] = <<"ffmpeg concat", 0>>
              /\ ps[k][2] # 0 => k = Len(ps) /\ stitch.status = "raised"
        /\ stitch.status = "returned" =>
              /\ stitch.output = OutputPath
              /\ Len(ps) >= 2
              /\ ps[Len(ps) - 1] = <<"ffmpeg concat", 0>>
              /\ ps[Len(ps)] = <<"ffmpeg mux", 0>>
        /\ stitch.status # "returned" =>
              stitch.output = None /\ OutputPath \notin DOMAIN files

(* C20 witness: stitch_video returned after ffprobe, concat and mux each   *)
(* exited 0.                                                               *)
C20_Witness ==
    /\ stitch.status = "returned"
    /\ stitch.processes = <<<<"ffprobe", 0>>, <<"ffmpeg concat", 0>>, <<"ffmpeg mux", 0>>>>
    /\ OutputPath \in DOMAIN files

----------------------------------------------------------------------------
(* Error handling and files of the two batches (checked under Spec).       *)

(* C21: every duration the chunked synthesis returns is the last           *)
(* character end time of its chunk: a response without end times fails     *)
(* the call instead of yielding a substitute duration.                     *)
C21_DurationsAreRealEndTimes ==
    tts.status = "returned" =>
        \A i \in TtsIndices :
            LET end_times == At(tts.tasks, i).response.end_times
            IN  /\ end_times # <<>>
                /\ At(tts.output.durations_by_scene, i) = end_times[Len(end_times)]

(* C22: every frame the image batch returns has no alpha channel, for      *)
(* every mode the provider image can have and also when the conversion     *)
(* itself fails.                                                           *)
C22_FramesWithoutAlpha ==
    img.status = "returned" =>
        \A i \in ImgIndices : files[At(img.output, i)].data[2] = "RGB"

----------------------------------------------------------------------------
(* Scenes without narration (checked under TimerSpec).                     *)

(* C27: when some scene's script is empty the call raises and returns no   *)
(* duration list; if the alignment passed the checks of lines 34-46 the    *)
(* error is the range error, and that scene's range has                    *)
(* end_idx_exclusive <= start_idx.                                         *)
C27_EmptySceneRaises ==
    (timer.status # "not_called" /\ \E i \in 1..Len(scenes) : scenes[i].script = <<>>) =>
        /\ timer.status = "raised"
        /\ timer.durations = <<>>
        /\ timer.ranges # <<>> =>
              /\ timer.error = "scene index range is out of alignment bounds"
              /\ \E i \in 1..Len(scenes) :
                     /\ scenes[i].script = <<>>
                     /\ timer.ranges[i].end_idx_exclusive <= timer.ranges[i].start_idx

(* C27 witness: two scenes, the second without text, and an alignment      *)
(* that covers the joined text: the call raised the range error.           *)
C27_Witness ==
    /\ Len(scenes) = 2
    /\ scenes[1].script # <<>>
    /\ scenes[2].script = <<>>
    /\ alignment.is_dict
    /\ Len(alignment.characters) = Len(JoinScripts(scenes))
    /\ Len(alignment.character_start_times_seconds) = Len(alignment.characters)
    /\ Len(alignment.character_end_times_seconds) = Len(alignment.characters)
    /\ timer.status = "raised"
    /\ timer.error = "scene index range is out of alignment bounds"

----------------------------------------------------------------------------
(* Attempts and requests of one image item (checked under Spec).           *)

C29_Bounded ==
    \A i \in ImgIndices :
        LET task == At(img.tasks, i)
        IN  /\ task.attempt <= 3
            /\ task.requests <= 6
            /\ task.requests <= 2 * task.attempt
            /\ task.pc = "dall-e-3" => task.requests = 2 * task.attempt - 1
            /\ task.pc \in {"gpt-image-1", "backoff", "failed"} =>
                  task.requests = 2 * task.attempt
            /\ FramePath(i) \in DOMAIN files <=> task.pc = "done"

C29_WriteInSuccessfulAttempt ==
    \A i \in ImgIndices :
        /\ (FramePath(i) \notin DOMAIN files /\ FramePath(i) \in DOMAIN files') =>
              /\ ImgPc(i) \in {"dall-e-3", "gpt-image-1"}
              /\ img.quota = "ok"
              /\ img'.tasks[i + 1].pc = "done"
              /\ img'.tasks[i + 1].attempt = img.tasks[i + 1].attempt
              /\ img'.tasks[i + 1].requests = img.tasks[i + 1].requests
        /\ ImgPc(i) = "done" => img'.tasks[i + 1] = img.tasks[i + 1]

(* C29: an image item makes at most 3 attempts of at most two requests     *)
(* each, the gpt-image-1 request only after the attempt's dall-e-3 request *)
(* raised, so at most 6 requests; its frame is written only by a step in   *)
(* which an outstanding request succeeded, and a task whose attempt        *)
(* succeeded makes no further attempt or request.                          *)
C29_AttemptsAndRequests ==
    []C29_Bounded /\ [][C29_WriteInSuccessfulAttempt]_vars

(* C29 witness: an item whose sixth request, in the third attempt,         *)
(* succeeded and wrote the frame.                                          *)
C29_Witness ==
    \E i \in ImgIndices :
        /\ ImgPc(i) = "done"
        /\ At(img.tasks, i).attempt = 3
        /\ At(img.tasks, i).requests = 6
        /\ FramePath(i) \in DOMAIN files

----------------------------------------------------------------------------
(* The two batches on one event loop (checked under SharedDirSpec).        *)

(* C24 as stated: while the ffmpeg process of the speech batch is running, *)
(* an image task with a request in flight can take a step.                 *)
C24_ImagesProgressDuringConcat ==
    (tts.status = "concatenating" /\ ImgInFlight # {}) => ENABLED ImgNext

(* C30: in every state of the shared directory a frame_<i>.png was written *)
(* by image task i only, a chunk_<i>.mp3 by speech task i only and once,   *)
(* and audio_chunks.txt and voice.mp3 by the speech batch when every       *)
(* speech task had returned its chunk; there is no other file, so no path  *)
(* is written by both batches.                                             *)
C30_BatchesWriteDisjointPaths ==
    \A p \in DOMAIN files :
        \/ /\ p[1] = "frame_.png"
           /\ p[2] \in ImgIndices
           /\ files[p].writer = <<"img", p[2]>>
        \/ /\ p[1] = "audio_chunks/chunk_.mp3"
           /\ p[2] \in TtsIndices
           /\ files[p].writer = <<"tts", p[2]>>
           /\ files[p].writes = 1
        \/ /\ p \in {<<"audio_chunks.txt", 0>>, <<"voice.mp3", 0>>}
           /\ files[p].writer = <<"tts", -1>>
           /\ tts.tasks # <<>>
           /\ \A i \in TtsIndices :
                 TtsPc(i) = "done" /\ <<"audio_chunks/chunk_.mp3", i>> \in DOMAIN files

(* C30 witness: the speech batch has written both chunks, the list and     *)
(* voice.mp3 while the image batch has written one frame and still has a   *)
(* request in flight for the other.                                        *)
C30_Witness ==
    /\ tts.status = "returned"
    /\ img.status = "running"
    /\ ImgPc(0) = "done"
    /\ ImgPc(1) \in {"dall-e-3", "gpt-image-1"}
    /\ DOMAIN files = {FramePath(0), ChunkPath(0), ChunkPath(1), ListPath, FinalAudioPath}

----------------------------------------------------------------------------
(* The scene count of generate_scenes (checked under ScenesSpec).          *)

(* C25 as stated: whatever generate_scenes returns has exactly num_scenes  *)
(* scenes; after a valid answer they are the answer's scenes in order,     *)
(* cut to num_scenes or continued with the last one.                       *)
C25_ExactlyNumScenes ==
    scriptgen.status = "returned" =>
        /\ Len(scriptgen.output) = scriptgen.num_scenes
        /\ scriptgen.answer.valid =>
              \A k \in 1..scriptgen.num_scenes :
                  scriptgen.output[k] =
                      scriptgen.answer.scenes[Min(k, Len(scriptgen.answer.scenes))]

----------------------------------------------------------------------------
(* The model fallback of chat completions (checked under ChatSpec).        *)

(* C26: the calls made are a prefix of the candidate list, in its order,   *)
(* and only the last call can have succeeded.  A return carries the        *)
(* content and the name of that candidate.  A raise happens only when      *)
(* every candidate was called and failed, with the error of the last       *)
(* candidate, or RuntimeError when there was none.                         *)
C26_FirstSuccessInOrder ==
    LET candidates == chat.model_candidates
        n == Len(chat.calls)
    IN  /\ n <= Len(candidates)
        /\ chat.calls = SubSeq(candidates, 1, n)
        /\ Len(chat.outcomes) = n
        /\ \A k \in 1..(n - 1) : chat.outcomes[k] # "200"
        /\ chat.status = "returned" =>
              /\ n >= 1
              /\ chat.outcomes[n] = "200"
              /\ chat.output.used_model = candidates[n]
              /\ chat.output.content # None
        /\ chat.status = "raised" =>
              /\ n = Len(candidates)
              /\ \A k \in 1..n : chat.outcomes[k] # "200"
              /\ chat.error =
                    IF n = 0 THEN <<"RuntimeError", "">>
                    ELSE <<IF chat.outcomes[n] = "not 200" THEN "OpenAIError"
                           ELSE chat.outcomes[n],
                           candidates[n]>>

(* C26 witness: of three candidates the first raised, the second answered  *)
(* 200 and was returned, and the third was not called.                     *)
C26_Witness ==
    /\ Len(chat.model_candidates) = 3
    /\ chat.status = "returned"
    /\ chat.calls = SubSeq(chat.model_candidates, 1, 2)
    /\ chat.outcomes[1] \in ChatExceptions
    /\ chat.output.used_model = chat.model_candidates[2]

----------------------------------------------------------------------------
(* Progress of a batch and its semaphore (checked under FairSpec).         *)

TtsSettled ==
    /\ tts.status \in {"returned", "raised"}
    /\ \A i \in TtsIndices : TtsPc(i) \in {"done", "failed", "cancelled"}

ImgSettled ==
    /\ img.status \in {"returned", "raised"}
    /\ \A i \in ImgIndices : ImgPc(i) \in {"done", "failed", "cancelled"}

(* Every permit is either free or held by a task inside the semaphore.     *)
PermitsConserved ==
    /\ tts.tasks # <<>> => tts.permits + Cardinality(TtsInFlight) = Max(1, tts_concurrency)
    /\ img.status \notin {"idle", "called"} =>
          img.permits + Cardinality(ImgHolders) = img_concurrency

(* A batch that has not settled can take a step.                           *)
NoStuckBatch ==
    /\ (tts.status # "idle" /\ ~TtsSettled) => ENABLED TtsNext
    /\ (img.status # "idle" /\ ~ImgSettled) => ENABLED ImgNext

(* C28 as stated, in the form a finite run refutes: every task acquires    *)
(* the semaphore, so no task has ended without having entered it.          *)
C28_EveryTaskAcquires ==
    /\ \A i \in TtsIndices : TtsPc(i) = "cancelled" => TtsAttempts(i) = 1
    /\ \A i \in ImgIndices : ImgPc(i) = "cancelled" => At(img.tasks, i).attempt >= 1

(* C28 amended: permits are conserved (a task leaves the semaphore with    *)
(* its permit returned, whether it succeeded, failed or was cancelled), a  *)
(* batch that has not settled is never stuck, and every batch eventually   *)
(* settles: it has returned or raised and each task has finished after     *)
(* acquiring the semaphore or was cancelled when the event loop closed     *)
(* after the raise.                                                        *)
C28_BatchSettles ==
    /\ [](PermitsConserved /\ NoStuckBatch)
    /\ <>[](TtsSettled \/ ImgSettled)

(* C28 witness: three prompts under concurrency 1; item 0 used up its      *)
(* attempts and the batch raised, item 1 was cancelled in flight and item  *)
(* 2 while still waiting, and the one permit is free again.                *)
C28_Witness ==
    /\ Len(prompts) = 3
    /\ img_concurrency = 1
    /\ img.status = "raised"
    /\ ImgPc(0) = "failed"
    /\ ImgPc(1) = "cancelled" /\ At(img.tasks, 1).attempt >= 1
    /\ ImgPc(2) = "cancelled" /\ At(img.tasks, 2).attempt = 0
    /\ img.permits = 1

====
